---- MODULE Spec2Model ----
(***************************************************************************)
(* Model of the route-augmentation core of map_creator.py:                *)
(* AccessibleNavigationSystem.find_route and the collaborators it calls   *)
(* (geocoder, router, Overpass), together with the accessibility_objects  *)
(* table that stands for the Feature Catalog.                             *)
(*                                                                         *)
(* Units.  Coordinates are integers in units of 0.001 degree.  Planar      *)
(* distances (the code's ((dlat)**2 + (dlon)**2)**0.5) are integers in     *)
(* units of 0.00001 degree, rounded down.  Router distances are integers  *)
(* in decimetres, router durations in seconds.  A score is the code's      *)
(* score, exact in these units:                                            *)
(*   priority*1000 + max(0, 0.001 - m)*100000 - dist*500000                *)
(*     = priority*1000 + max(0, 100 - m') - 5*dist'   (m', dist' in 1e-5)  *)
(***************************************************************************)
EXTENDS Integers, Sequences, FiniteSets, TLC

VARIABLES req, catalog, user_submissions, session

vars == <<req, catalog, user_submissions, session>>

----------------------------------------------------------------------------
(* Bounds of the model *)

\* largest number of pedestrian points one Overpass reply carries
MaxPed == 4

----------------------------------------------------------------------------
(* Program constants *)

\* min_route_distance = 0.009
min_route_distance == 900
\* unique_objects[:6]
PoolSize == 6
\* filtered_objects[:3]
MaxWaypoints == 3
\* dist_to_route(...) < 0.005
NearRoute == 500
\* base_route_coords[::20]
FallbackStride == 20
\* for _ in range(2)
FallbackPerSample == 2
\* filtered_points[:20]
PedLimit == 20
\* max(0, 0.001 - min(start_dist, end_dist))
BonusRadius == 100

MobilityType == {"WHEELCHAIR", "VISUALLY_IMPAIRED", "CANE"}

AccessibilityFeature ==
    {"RAMP_FOLDING", "RAMP_FIXED", "TACTILE_GUIDING", "TACTILE_WARNING",
     "CURB_LOWERING", "AUDIO_TRAFFIC_LIGHT", "WIDE_DOOR", "HELP_BUTTON",
     "HANDRAILS", "ELEVATOR", "ACCESSIBLE_PARKING"}

\* self.feature_priorities
feature_priorities ==
    [m \in MobilityType |->
        CASE m = "WHEELCHAIR" ->
               [RAMP_FIXED |-> 10, ELEVATOR |-> 10, WIDE_DOOR |-> 8,
                ACCESSIBLE_PARKING |-> 7, RAMP_FOLDING |-> 9]
          [] m = "VISUALLY_IMPAIRED" ->
               [TACTILE_GUIDING |-> 10, AUDIO_TRAFFIC_LIGHT |-> 10,
                TACTILE_WARNING |-> 9, HELP_BUTTON |-> 8]
          [] OTHER ->
               [HANDRAILS |-> 10, CURB_LOWERING |-> 9]]

\* priorities.get(ftype, 0)
PriorityOf(m, ftype) ==
    IF ftype \in DOMAIN feature_priorities[m]
    THEN feature_priorities[m][ftype] ELSE 0

\* variant: the wheelchair list also offers a category the wheelchair
\* priority table does not know
GeneratedFeaturesForeign(m) ==
    CASE m = "WHEELCHAIR" -> <<"RAMP_FIXED", "HANDRAILS">>
      [] m = "VISUALLY_IMPAIRED" ->
           <<"TACTILE_GUIDING", "AUDIO_TRAFFIC_LIGHT", "TACTILE_WARNING", "HELP_BUTTON">>
      [] OTHER -> <<"HANDRAILS", "CURB_LOWERING">>

\* the `features` table of generate_accessibility_objects
GeneratedFeatures(m) ==
    CASE m = "WHEELCHAIR" -> <<"RAMP_FIXED", "RAMP_FOLDING">>
      [] m = "VISUALLY_IMPAIRED" ->
           <<"TACTILE_GUIDING", "AUDIO_TRAFFIC_LIGHT", "TACTILE_WARNING", "HELP_BUTTON">>
      [] OTHER -> <<"HANDRAILS", "CURB_LOWERING">>

----------------------------------------------------------------------------
(* Arithmetic and sequences *)

Max(a, b) == IF a >= b THEN a ELSE b
Min(a, b) == IF a <= b THEN a ELSE b
Abs(a) == IF a >= 0 THEN a ELSE -a

RECURSIVE SqrtSearch(_, _, _)
SqrtSearch(n, lo, hi) ==
    IF lo >= hi THEN lo
    ELSE LET mid == (lo + hi + 1) \div 2
         IN IF mid * mid <= n THEN SqrtSearch(n, mid, hi)
                              ELSE SqrtSearch(n, lo, mid - 1)

\* floor(sqrt(n))
ISqrt(n) == SqrtSearch(n, 0, 46340)

\* (a[0]-b[0])**2 + (a[1]-b[1])**2, in units of 0.001 degree squared
Dist2(a, b) == (a[1] - b[1]) * (a[1] - b[1]) + (a[2] - b[2]) * (a[2] - b[2])

\* (...)**0.5, in units of 0.00001 degree
Root(d2) == ISqrt(d2 * 10000)

\* ((a[0]-b[0])**2 + (a[1]-b[1])**2)**0.5, in units of 0.00001 degree
Dist(a, b) == Root(Dist2(a, b))

Range(s) == {s[i] : i \in 1..Len(s)}

\* list.sort(key=..., reverse=...) is stable in both directions: elements
\* with equal keys keep their input order.
\* keys[i] is the sort key of the i-th element; the result lists indices.
RECURSIVE InsertByKey(_, _, _, _)
InsertByKey(sorted, x, keys, descending) ==
    IF sorted = <<>> THEN <<x>>
    ELSE LET h == Head(sorted)
             before == IF descending THEN keys[h] >= keys[x] ELSE keys[h] <= keys[x]
         IN IF before
            THEN <<h>> \o InsertByKey(Tail(sorted), x, keys, descending)
            ELSE <<x>> \o sorted

RECURSIVE SortedIndices(_, _, _)
SortedIndices(n, keys, descending) ==
    IF n = 0 THEN <<>>
    ELSE InsertByKey(SortedIndices(n - 1, keys, descending), n, keys, descending)

\* variant: a sort that leaves elements with equal keys in reverse input order
SortByKeyUnstable(s, keys, descending) ==
    LET n == Len(s)
        rev == [i \in 1..n |-> s[n + 1 - i]]
        revKeys == [i \in 1..n |-> keys[n + 1 - i]]
        order == SortedIndices(n, revKeys, descending)
    IN [i \in 1..n |-> rev[order[i]]]

\* (concatenation with the empty list makes TLC hold the keys and the result
\* as evaluated lists rather than as unevaluated function expressions)
SortByKey(s, keys, descending) ==
    LET order == SortedIndices(Len(s), keys \o <<>>, descending)
    IN [i \in 1..Len(s) |-> s[order[i]]] \o <<>>

\* s[:n]
Take(s, n) == SubSeq(s, 1, Min(n, Len(s)))

----------------------------------------------------------------------------
(* Pure parts of find_route *)

\* def dist_to_route(lat, lon): min(... for rlat, rlon in base_route_coords)
\* the square root is increasing, so the smallest distance is the root of the
\* smallest squared distance
RECURSIVE MinDist2From(_, _, _)
MinDist2From(p, route, i) ==
    IF i = Len(route) THEN Dist2(p, route[i])
    ELSE Min(Dist2(p, route[i]), MinDist2From(p, route, i + 1))

dist_to_route(p, base_route_coords) == Root(MinDist2From(p, base_route_coords, 1))

\* cum_dist = [0.0]; for i in range(1, len(route)): cum_dist.append(cum_dist[-1] + dist)
RECURSIVE cum_dist(_)
cum_dist(base_route_coords) ==
    IF Len(base_route_coords) <= 1 THEN <<0>>
    ELSE LET n == Len(base_route_coords)
             prev == cum_dist(SubSeq(base_route_coords, 1, n - 1))
         IN Append(prev, prev[n - 1] + Dist(base_route_coords[n], base_route_coords[n - 1]))

\* def score_object(obj)
score_object(obj, mobility_type, start, end) ==
    LET priority == PriorityOf(mobility_type, obj.ftype)
        p == <<obj.lat, obj.lon>>
        start_dist == Dist(p, start)
        end_dist == Dist(p, end)
        position_bonus == Max(0, BonusRadius - Min(start_dist, end_dist))
        distance_penalty == obj.dist * 5
    IN priority * 1000 + position_bonus - distance_penalty

\* the closest_idx loop: the first index whose distance is strictly smallest
\* (distances are compared by their squares)
RECURSIVE ClosestFrom(_, _, _, _, _)
ClosestFrom(p, route, i, min_d, closest_idx) ==
    IF i > Len(route) THEN closest_idx
    ELSE LET d == Dist2(p, route[i])
         IN IF min_d < 0 \/ d < min_d
            THEN ClosestFrom(p, route, i + 1, d, i)
            ELSE ClosestFrom(p, route, i + 1, min_d, closest_idx)

\* min_d = float('inf') is written -1 here; closest_idx is 1-based
closest_idx(p, base_route_coords) == ClosestFrom(p, base_route_coords, 1, -1, 1)

\* obj.append(cum_dist[closest_idx])
WithProgress(obj, base_route_coords) ==
    [lat |-> obj.lat, lon |-> obj.lon, ftype |-> obj.ftype, desc |-> obj.desc,
     addr |-> obj.addr, dist |-> obj.dist,
     cum |-> cum_dist(base_route_coords)[closest_idx(<<obj.lat, obj.lon>>, base_route_coords)]]

\* variant: the spacing test is missing
FarFromAllAlways(obj, kept) == TRUE

\* variant: the threshold is twice min_route_distance
FarFromAllWide(obj, kept) ==
    \A k \in 1..Len(kept) : Abs(obj.cum - kept[k].cum) > 2 * min_route_distance

\* variant: the comparison is >= instead of >
FarFromAllOrEqual(obj, kept) ==
    \A k \in 1..Len(kept) : Abs(obj.cum - kept[k].cum) >= min_route_distance

\* for obj in best_objects: if not filtered_objects or all(abs(obj[6] - o[6]) > min) ...
FarFromAll(obj, kept) ==
    \A k \in 1..Len(kept) : Abs(obj.cum - kept[k].cum) > min_route_distance

RECURSIVE SpacingFilter(_, _)
SpacingFilter(objs, filtered_objects) ==
    IF objs = <<>> THEN filtered_objects
    ELSE IF filtered_objects = <<>> \/ FarFromAll(Head(objs), filtered_objects)
         THEN SpacingFilter(Tail(objs), Append(filtered_objects, Head(objs)))
         ELSE SpacingFilter(Tail(objs), filtered_objects)

\* variant: the sorted list is not cut to the first 6
PoolUncut(unique_objects, mobility_type, start, end) ==
    LET scores == [i \in 1..Len(unique_objects) |->
                      score_object(unique_objects[i], mobility_type, start, end)]
    IN SortByKey(unique_objects, scores, TRUE)

\* lines 586-587: sort by score descending, keep the first 6
Pool(unique_objects, mobility_type, start, end) ==
    LET scores == [i \in 1..Len(unique_objects) |->
                      score_object(unique_objects[i], mobility_type, start, end)]
    IN Take(SortByKey(unique_objects, scores, TRUE), PoolSize)

\* variant: the sort by cumulative distance (line 604) is missing
PoolInScoreOrder(unique_objects, mobility_type, start, end, base_route_coords) ==
    LET pool == Pool(unique_objects, mobility_type, start, end)
    IN [i \in 1..Len(pool) |-> WithProgress(pool[i], base_route_coords)]

\* lines 589-604: attach progress, sort by progress ascending
PoolByProgress(unique_objects, mobility_type, start, end, base_route_coords) ==
    LET pool == Pool(unique_objects, mobility_type, start, end)
        withCum == [i \in 1..Len(pool) |-> WithProgress(pool[i], base_route_coords)]
        cums == [i \in 1..Len(pool) |-> withCum[i].cum]
    IN SortByKey(withCum, cums, FALSE)

\* variant: the list is not truncated
CapWaypointsMissing(filtered_objects) == filtered_objects

\* filtered_objects[:3]
CapWaypoints(filtered_objects) == Take(filtered_objects, MaxWaypoints)

\* variant: the spacing filter runs over the pool in score order, so that of
\* two close candidates the higher-scored one is kept
SelectWaypointsByScore(unique_objects, mobility_type, start, end, base_route_coords) ==
    CapWaypoints(SpacingFilter(
        PoolInScoreOrder(unique_objects, mobility_type, start, end, base_route_coords), <<>>))

\* lines 586-612: best_objects as handed to the router
SelectWaypoints(unique_objects, mobility_type, start, end, base_route_coords) ==
    CapWaypoints(SpacingFilter(
        PoolByProgress(unique_objects, mobility_type, start, end, base_route_coords), <<>>))

\* lines 618-626: the dict appended to used_objects
UsedObject(obj) ==
    [feature_type |-> obj.ftype, description |-> obj.desc, address |-> obj.addr,
     latitude |-> obj.lat, longitude |-> obj.lon]

used_objects_of(best_objects) ==
    [i \in 1..Len(best_objects) |-> UsedObject(best_objects[i])]

\* waypoints = [start] + [(obj[0], obj[1]) ...] + [end]
waypoints_of(start, best_objects, end) ==
    <<start>> \o [i \in 1..Len(best_objects) |-> <<best_objects[i].lat, best_objects[i].lon>>]
              \o <<end>>

\* variant: the entries are numbered from 0 (enumerate(objects) without the 1)
generate_detailed_description_from_zero(start_addr, end_addr, distance_m, duration_min, objects, mobility_type) ==
    [header |-> IF objects # <<>> THEN "with_accessibility_objects" ELSE "shortest",
     from |-> start_addr,
     to |-> end_addr,
     length |-> distance_m \div 10,
     minutes |-> duration_min,
     mobility |-> mobility_type,
     entries |-> [i \in 1..Len(objects) |->
                    [n |-> i - 1, name |-> objects[i].feature_type,
                     description |-> objects[i].description,
                     address |-> objects[i].address]],
     closing |-> IF objects = <<>> THEN "route_is_optimal_no_objects_found"
                 ELSE "route_passes_through_these_objects"]

\* generate_detailed_description: the header suffix, the numbered entries and
\* the closing line that depend on `objects`
generate_detailed_description(start_addr, end_addr, distance_m, duration_min, objects, mobility_type) ==
    [header |-> IF objects # <<>> THEN "with_accessibility_objects" ELSE "shortest",
     from |-> start_addr,
     to |-> end_addr,
     length |-> distance_m \div 10,
     minutes |-> duration_min,
     mobility |-> mobility_type,
     entries |-> [i \in 1..Len(objects) |->
                    [n |-> i, name |-> objects[i].feature_type,
                     description |-> objects[i].description,
                     address |-> objects[i].address]],
     closing |-> IF objects = <<>> THEN "route_is_optimal_no_objects_found"
                 ELSE "route_passes_through_these_objects"]

----------------------------------------------------------------------------
(* The world the model draws its inputs from *)

\* None, and an empty list, are written <<>>
None == <<>>

Requests == {1}

\* what the geocoder answers for an address, when it answers
Location ==
    [A |-> <<0, 0>>, B |-> <<0, 42>>, current |-> <<1, 0>>]

\* the address and coordinate arguments of the calls api_route makes
CallArgs ==
    {[start_address |-> "A", user_location |-> None, start_coords |-> None,
      end_address |-> "B", end_coords |-> None],
     [start_address |-> "current", user_location |-> <<1, 0>>, start_coords |-> None,
      end_address |-> "B", end_coords |-> <<0, 42>>],
     [start_address |-> "A", user_location |-> None, start_coords |-> <<0, 0>>,
      end_address |-> "B", end_coords |-> None]}

\* polylines the router answers with for the direct request
LongRoute == [i \in 1..5 |-> <<0, 10 * (i - 1)>>]
BentRoute == <<<<0, 0>>, <<3, 4>>, <<3, 13>>, <<3, 23>>>>
PointRoute == <<<<0, 0>>>>
BaseRoutes == {<<>>, PointRoute, BentRoute, LongRoute}

\* route["distance"] (decimetres) and route["duration"] (seconds) of the direct route
BaseDistances == {10006}
BaseDurations == {725}

\* route["distance"] of the multi-stop route, around the 1.5 x base threshold
MultiDistances(base_distance) ==
    {base_distance, (3 * base_distance) \div 2, (3 * base_distance) \div 2 + 1}
MultiDurations == {939}

\* pedestrian way points Overpass knows, in the orders random.sample may give;
\* a node shared by two ways comes twice
PedOrder == <<<<0, 0>>, <<0, 10>>, <<0, 20>>, <<0, 30>>, <<0, 40>>, <<1, 12>>>>
PedExtra ==
    {<<<<7, 7>>>>,
     <<<<0, 30>>, <<1, 12>>, <<0, 10>>>>,
     <<<<1, 12>>, <<3, 5>>, <<3, 22>>>>,
     <<<<0, 10>>, <<0, 10>>>>}
PedReplies == {Take(PedOrder, n) : n \in 0..MaxPed} \cup PedExtra

\* displacements dist_deg * (cos angle, sin angle) with 0.001 <= dist_deg <= 0.005
Offsets == {<<1, 0>>, <<-3, -4>>}

\* infrastructure objects an XML import may carry: (latitude, longitude, features)
InfrastructureLists ==
    {<<>>,
     <<[latitude |-> 1, longitude |-> 12, accessibility_features |-> <<"WIDE_DOOR", "ELEVATOR">>]>>}

\* TULA_DISTRICTS, reduced to one district's bounding box
TULA_DISTRICTS == <<[min_lat |-> -4, max_lat |-> 4, min_lon |-> 0, max_lon |-> 40]>>

\* largest AUTOINCREMENT id the model lets accessibility_objects reach
MaxRowId == 42

----------------------------------------------------------------------------
(* AccessibilityDatabase: the accessibility_objects table *)

\* the ten objects add_tula_accessibility_all appends for position i of a district
SeedObjects(d, i) ==
    LET lat == d.min_lat + ((d.max_lat - d.min_lat) * (2 * i + 1)) \div 8
        lon == d.min_lon + ((d.max_lon - d.min_lon) * (2 * i + 1)) \div 8
    IN << [feature_type |-> "RAMP_FIXED", latitude |-> lat, longitude |-> lon],
          [feature_type |-> "ELEVATOR", latitude |-> lat + 1, longitude |-> lon + 1],
          [feature_type |-> "WIDE_DOOR", latitude |-> lat - 1, longitude |-> lon - 1],
          [feature_type |-> "ACCESSIBLE_PARKING", latitude |-> lat + 2, longitude |-> lon + 2],
          [feature_type |-> "TACTILE_GUIDING", latitude |-> lat, longitude |-> lon + 1],
          [feature_type |-> "AUDIO_TRAFFIC_LIGHT", latitude |-> lat + 1, longitude |-> lon],
          [feature_type |-> "TACTILE_WARNING", latitude |-> lat - 1, longitude |-> lon],
          [feature_type |-> "HELP_BUTTON", latitude |-> lat, longitude |-> lon - 1],
          [feature_type |-> "HANDRAILS", latitude |-> lat + 1, longitude |-> lon - 1],
          [feature_type |-> "CURB_LOWERING", latitude |-> lat - 1, longitude |-> lon + 1] >>

RECURSIVE Flatten(_)
Flatten(ss) == IF ss = <<>> THEN <<>> ELSE Head(ss) \o Flatten(Tail(ss))

\* INSERT INTO accessibility_objects, one row per object, ids from AUTOINCREMENT
InsertAll(table, objs) ==
    [rows |-> table.rows \o
                [k \in 1..Len(objs) |->
                    [id |-> table.last_id + k, feature_type |-> objs[k].feature_type,
                     latitude |-> objs[k].latitude, longitude |-> objs[k].longitude]],
     last_id |-> table.last_id + Len(objs)]

\* DELETE FROM accessibility_objects
DeleteAll(table) == [rows |-> <<>>, last_id |-> table.last_id]

\* add_tula_accessibility_all: DELETE, then every district's objects through add_object
add_tula_accessibility_all(table) ==
    InsertAll(DeleteAll(table),
              Flatten([d \in 1..Len(TULA_DISTRICTS) |->
                        Flatten([i \in 1..4 |-> SeedObjects(TULA_DISTRICTS[d], i - 1)])]))

\* the rows populate_database writes for its infrastructure objects
PopulateRows(infrastructure_objects) ==
    Flatten([k \in 1..Len(infrastructure_objects) |->
        LET obj == infrastructure_objects[k]
        IN IF obj.latitude # 0 /\ obj.longitude # 0 /\ obj.accessibility_features # <<>>
           THEN [f \in 1..Len(obj.accessibility_features) |->
                    [feature_type |-> obj.accessibility_features[f],
                     latitude |-> obj.latitude, longitude |-> obj.longitude]]
           ELSE <<>>])

\* the categories generate_accessibility_objects treats as relevant to a profile
RelevantCategories(m) == DOMAIN feature_priorities[m] \cup Range(GeneratedFeatures(m))

\* rows of the table whose category is relevant to profile m
CatalogRowsFor(table, m) ==
    {k \in 1..Len(table.rows) : table.rows[k].feature_type \in RelevantCategories(m)}

----------------------------------------------------------------------------
(* State *)

NoResult == [none |-> TRUE]

\* an Optional value that is not None is written as a list of one element
Some(x) == <<x>>

\* the Flask session of the browser that makes the requests: session.get('admin')
\* is None until a login stores the user name
NoSession == [admin |-> None]

\* a request that is not running.  pool_objects is the local best_objects as
\* it stands after line 604, sorted by progress, before the spacing filter and
\* the cap; best_objects is its final value.  saw_relevant is a history field, not a
\* field of the program: whether accessibility_objects held, at the call or at
\* any moment since, a row of a category relevant to the request's profile.
Idle ==
    [pc |-> "idle", mobility_type |-> "WHEELCHAIR",
     start_address |-> "", end_address |-> "",
     user_location |-> None, start_coords |-> None, end_coords |-> None,
     start_coords_tuple |-> None, start_addr |-> "",
     end_coords_tuple |-> None, end_addr |-> "",
     base_route_coords |-> <<>>, base_distance |-> 0, base_duration |-> 0,
     unique_objects |-> <<>>, pool_objects |-> <<>>, best_objects |-> <<>>,
     multi |-> [ok |-> FALSE, coords |-> <<>>, distance |-> 0, duration |-> 0],
     calls |-> <<>>, result |-> NoResult,
     saw_relevant |-> FALSE]

\* one entry of the log of external calls a request has made
Call(svc, address, points) == [svc |-> svc, address |-> address, points |-> points]

Init ==
    /\ req = [r \in Requests |-> Idle]
    /\ catalog = add_tula_accessibility_all([rows |-> <<>>, last_id |-> 0])
    /\ user_submissions = <<>>
    /\ session = NoSession

----------------------------------------------------------------------------
(* api_route -> find_route, one action per stretch between external calls *)

\* api_route calls nav_system.find_route(...)
FindRoute(r) ==
    /\ req[r].pc = "idle"
    /\ \E m \in MobilityType, a \in CallArgs :
         req' = [req EXCEPT ![r] =
                   [Idle EXCEPT !.pc = "geocode_start",
                                !.mobility_type = m,
                                !.start_address = a.start_address,
                                !.user_location = a.user_location,
                                !.start_coords = a.start_coords,
                                !.end_address = a.end_address,
                                !.end_coords = a.end_coords,
                                !.saw_relevant = CatalogRowsFor(catalog, m) # {}]]
    /\ UNCHANGED <<catalog, user_submissions, session>>

\* variant: the result of geocode() is not tested
GeocodeFailedUntested(reply) == FALSE

\* `if not start_coords_tuple:` / `if not end_coords_tuple:`
GeocodeFailed(reply) == reply = None

\* lines 530-540
GeocodeStart(r) ==
    LET q == req[r] IN
    /\ q.pc = "geocode_start"
    /\ IF q.start_coords # None
       THEN req' = [req EXCEPT ![r].start_coords_tuple = q.start_coords,
                               ![r].start_addr = "selected_on_map",
                               ![r].pc = "geocode_end"]
       ELSE IF q.start_address = "current" /\ q.user_location # None
       THEN req' = [req EXCEPT ![r].start_coords_tuple = q.user_location,
                               ![r].start_addr = "current_location",
                               ![r].pc = "geocode_end"]
       ELSE \E reply \in {None, Location[q.start_address]} :
              LET logged == Append(q.calls, Call("geocoder", q.start_address, <<>>))
              IN IF GeocodeFailed(reply)
                 THEN req' = [req EXCEPT ![r].calls = logged,
                                         ![r].result = [error |-> "start_address_not_found"],
                                         ![r].pc = "done"]
                 ELSE req' = [req EXCEPT ![r].calls = logged,
                                         ![r].start_coords_tuple = reply,
                                         ![r].start_addr = q.start_address,
                                         ![r].pc = "geocode_end"]
    /\ UNCHANGED <<catalog, user_submissions, session>>

\* lines 542-549
GeocodeEnd(r) ==
    LET q == req[r] IN
    /\ q.pc = "geocode_end"
    /\ IF q.end_coords # None
       THEN req' = [req EXCEPT ![r].end_coords_tuple = q.end_coords,
                               ![r].end_addr = "selected_on_map",
                               ![r].pc = "base_route"]
       ELSE \E reply \in {None, Location[q.end_address]} :
              LET logged == Append(q.calls, Call("geocoder", q.end_address, <<>>))
              IN IF GeocodeFailed(reply)
                 THEN req' = [req EXCEPT ![r].calls = logged,
                                         ![r].result = [error |-> "end_address_not_found"],
                                         ![r].pc = "done"]
                 ELSE req' = [req EXCEPT ![r].calls = logged,
                                         ![r].end_coords_tuple = reply,
                                         ![r].end_addr = q.end_address,
                                         ![r].pc = "base_route"]
    /\ UNCHANGED <<catalog, user_submissions, session>>

\* what get_route_multi returns: (None, None), or (route_coords, route)
RouterReplies(coordsSet, distances, durations) ==
    {[ok |-> FALSE, coords |-> <<>>, distance |-> 0, duration |-> 0]} \cup
    [ok : {TRUE}, coords : coordsSet, distance : distances, duration : durations]

\* the same, with one (route_coords, route) whose geometry is empty
MultiReplies(waypoints, base_distance) ==
    RouterReplies({waypoints}, MultiDistances(base_distance), MultiDurations) \cup
    {[ok |-> TRUE, coords |-> <<>>, distance |-> base_distance, duration |-> 0]}

\* variant: the result of get_route() is not tested
BaseRouteFailedUntested(reply) == FALSE

\* `if not base_route_coords:`
BaseRouteFailed(reply) == reply.coords = <<>>

\* variant: a failed request for the direct route is repeated, up to twice
BaseRouteRetried(r) ==
    LET q == req[r] IN
    /\ q.pc = "base_route"
    /\ \E reply \in RouterReplies(BaseRoutes, BaseDistances, BaseDurations) :
         LET logged == Append(q.calls,
                              Call("router", "", <<q.start_coords_tuple, q.end_coords_tuple>>))
         IN IF BaseRouteFailed(reply)
            THEN IF Len(SelectSeq(logged, LAMBDA c : c.svc = "router")) < 3
                 THEN req' = [req EXCEPT ![r].calls = logged]
                 ELSE req' = [req EXCEPT ![r].calls = logged,
                                         ![r].result = [error |-> "route_not_built"],
                                         ![r].pc = "done"]
            ELSE req' = [req EXCEPT ![r].calls = logged,
                                    ![r].base_route_coords = reply.coords,
                                    ![r].base_distance = reply.distance,
                                    ![r].base_duration = reply.duration \div 60,
                                    ![r].pc = "candidates"]
    /\ UNCHANGED <<catalog, user_submissions, session>>

\* lines 551-557
BaseRoute(r) ==
    LET q == req[r] IN
    /\ q.pc = "base_route"
    /\ \E reply \in RouterReplies(BaseRoutes, BaseDistances, BaseDurations) :
         LET logged == Append(q.calls,
                              Call("router", "", <<q.start_coords_tuple, q.end_coords_tuple>>))
         IN IF BaseRouteFailed(reply)
            THEN req' = [req EXCEPT ![r].calls = logged,
                                    ![r].result = [error |-> "route_not_built"],
                                    ![r].pc = "done"]
            ELSE req' = [req EXCEPT ![r].calls = logged,
                                    ![r].base_route_coords = reply.coords,
                                    ![r].base_distance = reply.distance,
                                    ![r].base_duration = reply.duration \div 60,
                                    ![r].pc = "candidates"]
    /\ UNCHANGED <<catalog, user_submissions, session>>

\* obj = (lat, lon, feature, description, address, obj_dist)
ObjectTuple(p, feature, where, obj_dist) ==
    [lat |-> p[1], lon |-> p[2], ftype |-> feature,
     desc |-> [text |-> "generated", feature |-> feature, where |-> where],
     addr |-> [where |-> where, lat |-> p[1], lon |-> p[2]],
     dist |-> obj_dist]

\* the tuple generate_accessibility_objects appends for the point p
GeneratedObject(p, feature, where, base_route_coords) ==
    ObjectTuple(p, feature, where, dist_to_route(p, base_route_coords))

\* filtered_points = [p for p in pedestrian_points if dist_to_route(p[0], p[1]) < 0.005]
filtered_points(pedestrian_points, base_route_coords) ==
    LET Near(p) == dist_to_route(p, base_route_coords) < NearRoute
    IN SelectSeq(pedestrian_points, Near)

\* base_route_coords[::20], as 1-based indices
FallbackSamples(base_route_coords) ==
    [k \in 1..((Len(base_route_coords) + FallbackStride - 1) \div FallbackStride) |->
        base_route_coords[(k - 1) * FallbackStride + 1]]

\* variant: without the fallback, no near way point means no candidate
generate_accessibility_objects_without_fallback(r) ==
    LET q == req[r]
        route == q.base_route_coords
        features == GeneratedFeatures(q.mobility_type)
    IN
    /\ q.pc = "candidates"
    /\ \E pedestrian_points \in PedReplies \cup {<<>>} :
         LET limited == Take(filtered_points(pedestrian_points, route), PedLimit)
         IN \E pick \in [1..Len(limited) -> 1..Len(features)] :
              req' = [req EXCEPT
                        ![r].calls = Append(q.calls, Call("overpass", "", route)),
                        ![r].unique_objects =
                            [k \in 1..Len(limited) |->
                                GeneratedObject(limited[k], features[pick[k]],
                                                "on_pedestrian_route", route)],
                        ![r].pc = "multi_route"]
    /\ UNCHANGED <<catalog, user_submissions, session>>

\* lines 690-726; get_pedestrian_points_near_route (lines 657-688) answers with
\* `sampled`, or with [] when the Overpass request raises
generate_accessibility_objects(r) ==
    LET q == req[r]
        route == q.base_route_coords
        features == GeneratedFeatures(q.mobility_type)
    IN
    /\ q.pc = "candidates"
    /\ \E pedestrian_points \in PedReplies \cup {<<>>} :
       \E near \in {filtered_points(pedestrian_points, route)} :
         LET logged == Append(q.calls, Call("overpass", "", route))
         IN IF near = <<>>
            THEN LET samples == FallbackSamples(route)
                     n == Len(samples) * FallbackPerSample
                 IN \E pick \in [1..n -> Offsets \X (1..Len(features))] :
                      LET objects ==
                            [k \in 1..n |->
                                LET s == samples[((k - 1) \div FallbackPerSample) + 1]
                                    new == <<s[1] + pick[k][1][1], s[2] + pick[k][1][2]>>
                                IN GeneratedObject(new, features[pick[k][2]],
                                                   "near_pedestrian_route", route)]
                      IN req' = [req EXCEPT ![r].calls = logged,
                                            ![r].unique_objects = objects,
                                            ![r].pc = "multi_route"]
            ELSE \E limited \in {Take(near, PedLimit)} :
                 \E obj_dist \in {[k \in 1..Len(limited) |-> dist_to_route(limited[k], route)]} :
                 \E pick \in [1..Len(limited) -> 1..Len(features)] :
                      LET objects ==
                            [k \in 1..Len(limited) |->
                                ObjectTuple(limited[k], features[pick[k]],
                                            "on_pedestrian_route", obj_dist[k])]
                      IN req' = [req EXCEPT ![r].calls = logged,
                                            ![r].unique_objects = objects,
                                            ![r].pc = "multi_route"]
    /\ UNCHANGED <<catalog, user_submissions, session>>

\* variant: the operands are swapped
TooLongSwapped(distance, base_distance) == 2 * base_distance > 3 * distance

\* variant: the tolerance is 2.0 instead of 1.5
TooLongTwice(distance, base_distance) == distance > 2 * base_distance

\* variant: the comparison is >= instead of >
TooLongOrEqual(distance, base_distance) == 2 * distance >= 3 * base_distance

\* full_data["distance"] > base_distance * 1.5, in exact arithmetic
TooLong(distance, base_distance) == 2 * distance > 3 * base_distance

\* variant: `not final_route` is missing
UseFallbackDistanceOnly(reply, base_distance) ==
    TooLong(reply.distance, base_distance)

\* variant: the test is for a failed request, not for an empty polyline
UseFallbackOnError(reply, base_distance) ==
    ~reply.ok \/ TooLong(reply.distance, base_distance)

\* `if not final_route or full_data["distance"] > base_distance * 1.5:`
UseFallback(reply, base_distance) ==
    reply.coords = <<>> \/ TooLong(reply.distance, base_distance)

\* lines 566-655: selection, the multi-stop request, the fallback rule, the result
MultiRoute(r) ==
    LET q == req[r] IN
    /\ q.pc = "multi_route"
    /\ \E pool_objects \in {PoolByProgress(q.unique_objects, q.mobility_type,
                                            q.start_coords_tuple, q.end_coords_tuple,
                                            q.base_route_coords)} :
       \E best_objects \in {SelectWaypoints(q.unique_objects, q.mobility_type,
                                             q.start_coords_tuple, q.end_coords_tuple,
                                             q.base_route_coords)} :
       \E waypoints \in {waypoints_of(q.start_coords_tuple, best_objects, q.end_coords_tuple)} :
       \E reply \in MultiReplies(waypoints, q.base_distance) :
         LET fallback == UseFallback(reply, q.base_distance)
             final_route == IF fallback THEN q.base_route_coords ELSE reply.coords
             total_distance == IF fallback THEN q.base_distance ELSE reply.distance
             total_minutes == IF fallback THEN q.base_duration ELSE reply.duration \div 60
             used_objects == IF fallback THEN <<>> ELSE used_objects_of(best_objects)
         IN req' = [req EXCEPT
                ![r].calls = Append(q.calls, Call("router", "", waypoints)),
                ![r].pool_objects = pool_objects,
                ![r].best_objects = best_objects,
                ![r].multi = reply,
                ![r].result =
                    [success |-> TRUE,
                     start |-> [address |-> q.start_addr, coords |-> q.start_coords_tuple],
                     end |-> [address |-> q.end_addr, coords |-> q.end_coords_tuple],
                     route_coords |-> final_route,
                     accessibility_objects |-> used_objects,
                     description |-> generate_detailed_description(
                                        q.start_addr, q.end_address, total_distance,
                                        total_minutes, used_objects, q.mobility_type),
                     total_distance |-> total_distance \div 10,
                     duration_minutes |-> total_minutes,
                     mobility_type |-> q.mobility_type],
                ![r].pc = "done"]
    /\ UNCHANGED <<catalog, user_submissions, session>>

\* variant: the request record is shared, and ending one request ends them all
ReplyEndsAll(r) ==
    /\ req[r].pc = "done"
    /\ req' = [o \in DOMAIN req |-> Idle]
    /\ UNCHANGED <<catalog, user_submissions, session>>

\* api_route returns jsonify(result); the request is over
Reply(r) ==
    /\ req[r].pc = "done"
    /\ req' = [req EXCEPT ![r] = Idle]
    /\ UNCHANGED <<catalog, user_submissions, session>>

----------------------------------------------------------------------------
(* xml_parser.py *)

\* XMLDataParser.populate_database: DELETE, then one row per feature of each object
populate_database ==
    /\ \E infrastructure_objects \in InfrastructureLists :
         LET rows == PopulateRows(infrastructure_objects)
         IN /\ catalog.last_id + Len(rows) <= MaxRowId
            /\ catalog' = InsertAll(DeleteAll(catalog), rows)
    /\ req' = [r \in Requests |->
                IF req[r].pc \in {"idle", "done"} THEN req[r]
                ELSE [req[r] EXCEPT !.saw_relevant =
                        @ \/ CatalogRowsFor(catalog', req[r].mobility_type) # {}]]
    /\ UNCHANGED <<user_submissions, session>>

----------------------------------------------------------------------------

Next ==
    \/ \E r \in Requests : FindRoute(r)
    \/ \E r \in Requests : GeocodeStart(r)
    \/ \E r \in Requests : GeocodeEnd(r)
    \/ \E r \in Requests : BaseRoute(r)
    \/ \E r \in Requests : generate_accessibility_objects(r)
    \/ \E r \in Requests : MultiRoute(r)
    \/ \E r \in Requests : Reply(r)
    \/ populate_database

Spec == Init /\ [][Next]_vars

----------------------------------------------------------------------------
(* Properties *)

Done(r) == req[r].pc = "done"
Succeeded(r) == Done(r) /\ "success" \in DOMAIN req[r].result
Failed(r) == Done(r) /\ "error" \in DOMAIN req[r].result

\* the calls of a request to one external service
CallsTo(r, svc) ==
    LET Is(c) == c.svc = svc IN SelectSeq(req[r].calls, Is)

\* the progress-ordered pool of a finished request, before spacing and cap:
\* best_objects after the sort of line 604
PoolOf(r) == req[r].pool_objects

\* C1: the waypoint list find_route selects (best_objects after the spacing
\* filter and the truncation) never has more than 3 entries.
C1_CapInvariant ==
    \A r \in Requests : Len(req[r].best_objects) <= 3

\* a finished request whose spacing filter kept more than 3 candidates, so
\* that the truncation removed one
C1_Witness ==
    \E r \in Requests :
        /\ Succeeded(r)
        /\ Len(req[r].best_objects) = 3
        /\ Len(req[r].unique_objects) > 3
        /\ Len(SpacingFilter(PoolOf(r), <<>>)) > 3

\* C2: any two distinct selected waypoints have progress values (cumulative
\* arc length of the nearest base-route point) that differ by strictly more
\* than min_spacing = 0.009 degree.
C2_SpacingInvariant ==
    \A r \in Requests :
        \A i, j \in 1..Len(req[r].best_objects) :
            i # j => Abs(req[r].best_objects[i].cum - req[r].best_objects[j].cum) > 900

\* a finished request with two waypoints kept and a pool candidate dropped
\* whose progress is exactly 0.009 from a kept one
C2_Witness ==
    \E r \in Requests :
        /\ Succeeded(r)
        /\ Len(req[r].best_objects) >= 2
        /\ Len(req[r].unique_objects) <= 3
        /\ \E k \in 1..Len(PoolOf(r)) :
              /\ PoolOf(r)[k] \notin Range(req[r].best_objects)
              /\ \E i \in 1..Len(req[r].best_objects) :
                    Abs(PoolOf(r)[k].cum - req[r].best_objects[i].cum) = 900

\* C3: the selected waypoints are in increasing order of route progress, and
\* that is the order in which they are passed to the router (between origin
\* and destination) and reported as used objects.
C3_OrderingInvariant ==
    \A r \in Requests :
        LET best == req[r].best_objects IN
        /\ \A i \in 1..(Len(best) - 1) : best[i].cum < best[i + 1].cum
        /\ Done(r) /\ Len(CallsTo(r, "router")) = 2 =>
              /\ CallsTo(r, "router")[2].points =
                    <<req[r].start_coords_tuple>>
                    \o [i \in 1..Len(best) |-> <<best[i].lat, best[i].lon>>]
                    \o <<req[r].end_coords_tuple>>
              /\ LET used == req[r].result.accessibility_objects
                 IN used # <<>> =>
                      /\ Len(used) = Len(best)
                      /\ \A i \in 1..Len(best) :
                            /\ used[i].latitude = best[i].lat
                            /\ used[i].longitude = best[i].lon
                            /\ used[i].feature_type = best[i].ftype

\* a finished request with at least two used objects whose pool, in score
\* order, was not in progress order
C3_Witness ==
    \E r \in Requests :
        /\ Succeeded(r)
        /\ Len(req[r].result.accessibility_objects) >= 2
        /\ LET scored == PoolInScoreOrder(req[r].unique_objects, req[r].mobility_type,
                                          req[r].start_coords_tuple, req[r].end_coords_tuple,
                                          req[r].base_route_coords)
           IN \E i, j \in 1..Len(scored) :
                /\ i < j
                /\ scored[i].cum > scored[j].cum
                /\ scored[i] \in Range(req[r].best_objects)
                /\ scored[j] \in Range(req[r].best_objects)

\* the multi-stop request of a finished request got this far: it was issued
MultiRequested(r) == Done(r) /\ Len(CallsTo(r, "router")) = 2

\* the geocoder was asked for the start address and found nothing
StartGeocodeFailed(r) ==
    /\ req[r].pc \notin {"idle", "geocode_start"}
    /\ req[r].start_coords = None
    /\ ~(req[r].start_address = "current" /\ req[r].user_location # None)
    /\ req[r].start_coords_tuple = None

\* the geocoder was asked for the end address and found nothing
EndGeocodeFailed(r) ==
    /\ req[r].pc \notin {"idle", "geocode_start", "geocode_end"}
    /\ req[r].start_coords_tuple # None
    /\ req[r].end_coords = None
    /\ req[r].end_coords_tuple = None

\* the direct route was requested and the router gave no route
BaseRequestFailed(r) ==
    /\ req[r].pc \notin {"idle", "geocode_start", "geocode_end", "base_route"}
    /\ req[r].start_coords_tuple # None
    /\ req[r].end_coords_tuple # None
    /\ req[r].base_route_coords = <<>>

\* the result carries the direct route and no accessibility object
ReturnsBaseRoute(r) ==
    /\ "success" \in DOMAIN req[r].result
    /\ "error" \notin DOMAIN req[r].result
    /\ req[r].result.route_coords = req[r].base_route_coords
    /\ req[r].result.total_distance = req[r].base_distance \div 10
    /\ req[r].result.duration_minutes = req[r].base_duration
    /\ req[r].result.accessibility_objects = <<>>

\* C4: when the multi-stop route is longer than 1.5 x the base distance,
\* find_route returns the base polyline, the base distance (as whole metres)
\* and the base duration, and no accessibility object.
C4_FallbackOnDetour ==
    \A r \in Requests :
        (/\ MultiRequested(r)
         /\ req[r].multi.coords # <<>>
         /\ 2 * req[r].multi.distance > 3 * req[r].base_distance)
        => ReturnsBaseRoute(r)

\* a finished request whose multi-stop route through selected waypoints was
\* one decimetre over the threshold and was discarded
C4_Witness ==
    \E r \in Requests :
        /\ MultiRequested(r)
        /\ req[r].multi.coords # <<>>
        /\ req[r].multi.coords # req[r].base_route_coords
        /\ 2 * req[r].multi.distance > 3 * req[r].base_distance
        /\ req[r].best_objects # <<>>
        /\ req[r].result.accessibility_objects = <<>>

\* C5: when the base route succeeded and the multi-stop request fails, the
\* result is a success carrying the base route and no accessibility object.
C5_FallbackOnRouterFailure ==
    \A r \in Requests :
        (MultiRequested(r) /\ ~req[r].multi.ok)
        => (ReturnsBaseRoute(r) /\ req[r].result.route_coords # <<>>)

\* a finished request whose second router request failed after waypoints
\* had been selected
C5_Witness ==
    \E r \in Requests :
        /\ MultiRequested(r)
        /\ ~req[r].multi.ok
        /\ req[r].best_objects # <<>>
        /\ Succeeded(r)

\* C6: when the multi-stop request succeeds with a distance of at most
\* 1.5 x the base distance, the result carries the multi-stop polyline,
\* distance and duration, and accessibility_objects is the selected waypoint
\* list, entry by entry, in travel order.
C6_AcceptsMultiStop ==
    \A r \in Requests :
        (/\ MultiRequested(r)
         /\ req[r].multi.ok
         /\ req[r].multi.coords # <<>>
         /\ 2 * req[r].multi.distance <= 3 * req[r].base_distance)
        => /\ "success" \in DOMAIN req[r].result
           /\ req[r].result.route_coords = req[r].multi.coords
           /\ req[r].result.total_distance = req[r].multi.distance \div 10
           /\ req[r].result.duration_minutes = req[r].multi.duration \div 60
           /\ Len(req[r].result.accessibility_objects) = Len(req[r].best_objects)
           /\ \A i \in 1..Len(req[r].best_objects) :
                req[r].result.accessibility_objects[i] =
                    [feature_type |-> req[r].best_objects[i].ftype,
                     description |-> req[r].best_objects[i].desc,
                     address |-> req[r].best_objects[i].addr,
                     latitude |-> req[r].best_objects[i].lat,
                     longitude |-> req[r].best_objects[i].lon]

\* a finished request with a single candidate lying on the route, returned as
\* the only used object, the multi-stop distance being exactly 1.5 x base
C6_Witness ==
    \E r \in Requests :
        /\ MultiRequested(r)
        /\ req[r].multi.ok
        /\ 2 * req[r].multi.distance = 3 * req[r].base_distance
        /\ Len(req[r].unique_objects) = 1
        /\ req[r].unique_objects[1].dist = 0
        /\ Len(req[r].result.accessibility_objects) = 1

\* C7: when accessibility_objects holds no row of a category relevant to the
\* profile, during the whole call, a call that got its base route returns the
\* base route, no accessibility object and the "route is optimal" text.
C7_EmptyCatalog ==
    \A r \in Requests :
        (Done(r) /\ ~req[r].saw_relevant /\ req[r].base_route_coords # <<>>)
        => /\ ReturnsBaseRoute(r)
           /\ req[r].result.description.closing = "route_is_optimal_no_objects_found"

\* C8: when geocoding of the origin or of the destination fails, the call is
\* over with the matching "address not found" error and has made no router
\* request (and no Overpass request).
C8_GeocodeFailureIsTerminal ==
    \A r \in Requests :
        /\ StartGeocodeFailed(r) =>
              /\ Done(r)
              /\ req[r].result = [error |-> "start_address_not_found"]
              /\ Len(req[r].calls) = 1
              /\ req[r].calls[1].svc = "geocoder"
        /\ EndGeocodeFailed(r) =>
              /\ Done(r)
              /\ req[r].result = [error |-> "end_address_not_found"]
              /\ \A k \in 1..Len(req[r].calls) : req[r].calls[k].svc = "geocoder"
        /\ CallsTo(r, "router") # <<>> =>
              /\ req[r].start_coords_tuple # None
              /\ req[r].end_coords_tuple # None

\* a finished request whose origin was geocoded and whose destination was not found
C8_Witness ==
    \E r \in Requests :
        /\ EndGeocodeFailed(r)
        /\ Len(CallsTo(r, "geocoder")) = 2
        /\ Failed(r)

\* C9: when the base route request fails, the call is over with a route
\* failure; no candidate search (Overpass), no selection and no multi-stop
\* request has been made.
C9_BaseRouteFailureIsTerminal ==
    \A r \in Requests :
        BaseRequestFailed(r) =>
            /\ Done(r)
            /\ req[r].result = [error |-> "route_not_built"]
            /\ Len(CallsTo(r, "router")) = 1
            /\ CallsTo(r, "overpass") = <<>>
            /\ req[r].unique_objects = <<>>
            /\ req[r].best_objects = <<>>

\* a finished request whose only router request returned no route
C9_Witness ==
    \E r \in Requests :
        /\ BaseRequestFailed(r)
        /\ Failed(r)
        /\ Len(CallsTo(r, "router")) = 1

\* C10: a result is either a failure (an error and no route) or a success
\* (with a non-empty route), never both, never neither; the two geocode
\* failures and the route failure carry different errors, a geocode failure
\* going with no router request and a route failure with one.
C10_ResultIsTagged ==
    \A r \in Requests :
        Done(r) =>
            LET res == req[r].result IN
            /\ ("error" \in DOMAIN res) # ("success" \in DOMAIN res)
            /\ "error" \in DOMAIN res =>
                  /\ "route_coords" \notin DOMAIN res
                  /\ "accessibility_objects" \notin DOMAIN res
                  /\ res.error \in {"start_address_not_found", "end_address_not_found",
                                    "route_not_built"}
                  /\ res.error = "route_not_built" <=> CallsTo(r, "router") # <<>>
            /\ "success" \in DOMAIN res =>
                  /\ res.success
                  /\ res.route_coords # <<>>
                  /\ req[r].base_route_coords # <<>>

\* a finished request that succeeded with no accessibility object, the
\* multi-stop reply having carried an empty polyline
C10_Witness ==
    \E r \in Requests :
        /\ Succeeded(r)
        /\ req[r].multi.ok
        /\ req[r].multi.coords = <<>>
        /\ req[r].result.accessibility_objects = <<>>

----------------------------------------------------------------------------
(* Scoring and selection (lines 566-612) run twice on the same candidates *)

\* largest number of candidates in a list the selection is run on
MaxCandidates == 3

\* the two runs
Runs == {1, 2}

\* pedestrian way points within 0.005 of BentRoute: two with the same nearest
\* route point and the same distance to it, one 0.009 before them along the
\* route, one 0.010 after
SelPoints == <<<<3, 12>>, <<3, 14>>, <<3, 5>>, <<3, 22>>>>

\* the lists generate_accessibility_objects can return for such points: some
\* of them, each once, in any order, with any feature of the profile for each
SelCandidates(mobility_type) ==
    UNION {{[k \in 1..n |->
                GeneratedObject(SelPoints[pick[k][1]],
                                GeneratedFeatures(mobility_type)[pick[k][2]],
                                "on_pedestrian_route", BentRoute)] :
            pick \in {f \in [1..n -> (1..Len(SelPoints)) \X (1..Len(GeneratedFeatures(mobility_type)))] :
                        \A i, j \in 1..n : i # j => f[i][1] # f[j][1]}} :
           n \in 1..MaxCandidates}

\* a call of find_route('A', 'B', WHEELCHAIR) that has geocoded both
\* addresses, got BentRoute as base route and these candidates
AtSelection(unique_objects) ==
    [Idle EXCEPT !.pc = "multi_route",
                 !.mobility_type = "WHEELCHAIR",
                 !.start_address = "A", !.end_address = "B",
                 !.start_coords_tuple = Location.A, !.start_addr = "A",
                 !.end_coords_tuple = Location.B, !.end_addr = "B",
                 !.base_route_coords = BentRoute,
                 !.base_distance = 10006,
                 !.base_duration = 725 \div 60,
                 !.unique_objects = unique_objects,
                 !.calls = << Call("geocoder", "A", <<>>), Call("geocoder", "B", <<>>),
                              Call("router", "", <<Location.A, Location.B>>),
                              Call("overpass", "", BentRoute) >>,
                 !.saw_relevant = TRUE]

\* seven way points within 0.005 of BentRoute, in the order Overpass gave
\* them: one 0.004 off the last route point, three around the second route
\* point and three around the third
SelManyPoints ==
    <<<<7, 23>>, <<3, 4>>, <<3, 5>>, <<3, 3>>, <<3, 12>>, <<3, 13>>, <<3, 14>>>>

\* the lists generate_accessibility_objects can return for these seven points
\* when random.choice gives the points around one route point the same feature
SelManyCandidates(mobility_type) ==
    {[k \in 1..Len(SelManyPoints) |->
         GeneratedObject(SelManyPoints[k], GeneratedFeatures(mobility_type)[pick[k]],
                         "on_pedestrian_route", BentRoute)] :
     pick \in {f \in [1..Len(SelManyPoints) -> 1..Len(GeneratedFeatures(mobility_type))] :
                 /\ f[2] = f[3] /\ f[3] = f[4]
                 /\ f[5] = f[6] /\ f[6] = f[7]}}

SelectInit ==
    /\ \E unique_objects \in SelCandidates("WHEELCHAIR") \cup SelManyCandidates("WHEELCHAIR") :
          req = [r \in Runs |-> AtSelection(unique_objects)]
    /\ catalog = add_tula_accessibility_all([rows |-> <<>>, last_id |-> 0])
    /\ user_submissions = <<>>
    /\ session = NoSession

SelectNext ==
    \/ \E r \in Runs : MultiRoute(r)
    \/ \E r \in Runs : Reply(r)

SelectSpec == SelectInit /\ [][SelectNext]_vars

\* the score find_route gave a pool candidate of request r
ScoreOf(r, obj) ==
    score_object(obj, req[r].mobility_type, req[r].start_coords_tuple, req[r].end_coords_tuple)

\* C11 (as stated): of two pool candidates whose progress values differ by no
\* more than min_spacing, the one the selector keeps is the higher-scored.
C11_HigherScoredKept ==
    \A r \in Runs :
        Done(r) =>
            \E pool \in {PoolOf(r)} :
                \A k, l \in 1..Len(pool) :
                    (/\ Abs(pool[k].cum - pool[l].cum) <= 900
                     /\ pool[k] \in Range(req[r].best_objects)
                     /\ pool[l] \notin Range(req[r].best_objects))
                    => ScoreOf(r, pool[k]) >= ScoreOf(r, pool[l])

\* C11 (amended): of two pool candidates whose progress values differ by no
\* more than min_spacing at most one is selected, and progress order decides,
\* not the score: the first pool candidate in progress order is always
\* selected, whatever its score; the score decides only between candidates of
\* equal progress, which the stable sort leaves in score order.
C11_KeptByProgressOrder ==
    \A r \in Runs :
        Done(r) =>
            \E pool \in {PoolOf(r)} :
            \E score \in {[k \in 1..Len(pool) |-> ScoreOf(r, pool[k])]} :
                LET best == req[r].best_objects IN
                /\ pool # <<>> => (best # <<>> /\ best[1] = pool[1])
                /\ \A i, j \in 1..Len(best) :
                      i # j => Abs(best[i].cum - best[j].cum) > 900
                /\ \A k, l \in 1..Len(pool) :
                      (k < l /\ pool[k].cum = pool[l].cum) => score[k] >= score[l]

\* a finished request with two pool candidates within min_spacing of each
\* other, the kept one having the strictly lower score
C11_Witness ==
    \E r \in Runs :
        /\ Succeeded(r)
        /\ \E pool \in {PoolOf(r)} :
             \E k, l \in 1..Len(pool) :
                /\ k < l
                /\ Abs(pool[k].cum - pool[l].cum) <= 900
                /\ pool[k] = req[r].best_objects[1]
                /\ pool[l] \notin Range(req[r].best_objects)
                /\ ScoreOf(r, pool[k]) < ScoreOf(r, pool[l])

\* a candidate with the progress find_route attaches to it
ProgressOf(r, obj) == WithProgress(obj, req[r].base_route_coords)

\* C12: scoring followed by selection is a function of the ordered candidate
\* list, the base route, the endpoints and the profile: two runs on the same
\* inputs select the same ordered waypoint list; and ties are resolved by
\* input order: of two different candidates with the same progress, the one
\* with the lower score, or at equal scores the later one in the input, is
\* never selected.
C12_SelectionIsAFunction ==
    /\ \A r1, r2 \in Runs :
          (/\ Done(r1) /\ Done(r2)
           /\ req[r1].unique_objects = req[r2].unique_objects
           /\ req[r1].base_route_coords = req[r2].base_route_coords
           /\ req[r1].start_coords_tuple = req[r2].start_coords_tuple
           /\ req[r1].end_coords_tuple = req[r2].end_coords_tuple
           /\ req[r1].mobility_type = req[r2].mobility_type)
          => req[r1].best_objects = req[r2].best_objects
    /\ \A r \in Runs :
          Done(r) =>
            \E u \in {[k \in 1..Len(req[r].unique_objects) |->
                          ProgressOf(r, req[r].unique_objects[k])]} :
            \E score \in {[k \in 1..Len(u) |-> ScoreOf(r, u[k])]} :
              \A i, j \in 1..Len(u) :
                 (/\ i # j
                  /\ u[i].cum = u[j].cum
                  /\ \A k \in 1..Len(u) : k # j => u[k] # u[j]
                  /\ \/ score[i] > score[j]
                     \/ score[i] = score[j] /\ i < j)
                 => u[j] \notin Range(req[r].best_objects)

\* both runs have finished on a list in which two different candidates have
\* the same score and the same progress, and the earlier one was selected
C12_Witness ==
    /\ \A r \in Runs : Succeeded(r)
    /\ req[1].multi # req[2].multi
    /\ LET u == [k \in 1..Len(req[1].unique_objects) |->
                    ProgressOf(1, req[1].unique_objects[k])]
       IN \E i, j \in 1..Len(u) :
            /\ i < j
            /\ u[i] # u[j]
            /\ u[i].cum = u[j].cum
            /\ ScoreOf(1, u[i]) = ScoreOf(1, u[j])
            /\ u[i] \in Range(req[1].best_objects)
            /\ u[i] \in Range(req[2].best_objects)

----------------------------------------------------------------------------
(* Two concurrent calls of find_route('A', 'B', WHEELCHAIR); nothing else *)
(* runs, so that accessibility_objects is written by nobody else          *)

\* the requests and replies the two calls are run with: both addresses
\* geocoded, and a base route of at most one point
InSmallWorld(q) ==
    /\ q.mobility_type = "WHEELCHAIR"
    /\ q.start_coords = None
    /\ q.user_location = None
    /\ q.end_coords = None
    /\ q.base_route_coords \in {<<>>, PointRoute}

SmallWorld == \A r \in DOMAIN req : InSmallWorld(req[r])

ConcurrentInit ==
    /\ req = [r \in Runs |-> Idle]
    /\ catalog = add_tula_accessibility_all([rows |-> <<>>, last_id |-> 0])
    /\ user_submissions = <<>>
    /\ session = NoSession

ConcurrentNext ==
    \/ \E r \in Runs : FindRoute(r) /\ SmallWorld'
    \/ \E r \in Runs : GeocodeStart(r) /\ SmallWorld'
    \/ \E r \in Runs : GeocodeEnd(r) /\ SmallWorld'
    \/ \E r \in Runs : BaseRoute(r) /\ SmallWorld'
    \/ \E r \in Runs : generate_accessibility_objects(r) /\ SmallWorld'
    \/ \E r \in Runs : MultiRoute(r) /\ SmallWorld'
    \/ \E r \in Runs : Reply(r) /\ SmallWorld'

SpecConcurrent == ConcurrentInit /\ [][ConcurrentNext]_vars

\* what find_route returns for the arguments and the replies recorded in q,
\* computed from q alone
ResultAlone(q) ==
    IF q.start_coords_tuple = None THEN [error |-> "start_address_not_found"]
    ELSE IF q.end_coords_tuple = None THEN [error |-> "end_address_not_found"]
    ELSE IF q.base_route_coords = <<>> THEN [error |-> "route_not_built"]
    ELSE LET best == SelectWaypoints(q.unique_objects, q.mobility_type,
                                     q.start_coords_tuple, q.end_coords_tuple,
                                     q.base_route_coords)
             fallback == UseFallback(q.multi, q.base_distance)
             total_distance == IF fallback THEN q.base_distance ELSE q.multi.distance
             total_minutes == IF fallback THEN q.base_duration ELSE q.multi.duration \div 60
             used_objects == IF fallback THEN <<>> ELSE used_objects_of(best)
         IN [success |-> TRUE,
             start |-> [address |-> q.start_addr, coords |-> q.start_coords_tuple],
             end |-> [address |-> q.end_addr, coords |-> q.end_coords_tuple],
             route_coords |-> IF fallback THEN q.base_route_coords ELSE q.multi.coords,
             accessibility_objects |-> used_objects,
             description |-> generate_detailed_description(
                                q.start_addr, q.end_address, total_distance,
                                total_minutes, used_objects, q.mobility_type),
             total_distance |-> total_distance \div 10,
             duration_minutes |-> total_minutes,
             mobility_type |-> q.mobility_type]

\* C13: two calls with the same arguments, the same geocoder and router
\* replies and an unchanged catalog select the same waypoints and return the
\* same used accessibility objects.
C13_SameInputsSameObjects ==
    \A r1, r2 \in Runs :
        (/\ Succeeded(r1) /\ Succeeded(r2)
         /\ req[r1].mobility_type = req[r2].mobility_type
         /\ req[r1].start_address = req[r2].start_address
         /\ req[r1].end_address = req[r2].end_address
         /\ req[r1].user_location = req[r2].user_location
         /\ req[r1].start_coords = req[r2].start_coords
         /\ req[r1].end_coords = req[r2].end_coords
         /\ req[r1].start_coords_tuple = req[r2].start_coords_tuple
         /\ req[r1].end_coords_tuple = req[r2].end_coords_tuple
         /\ req[r1].base_route_coords = req[r2].base_route_coords
         /\ req[r1].base_distance = req[r2].base_distance
         /\ req[r1].base_duration = req[r2].base_duration
         /\ req[r1].multi = req[r2].multi)
        => /\ req[r1].best_objects = req[r2].best_objects
           /\ req[r1].result.accessibility_objects = req[r2].result.accessibility_objects

C15_ObjectsComeFromCatalog ==
    \A r \in Runs :
        Succeeded(r) =>
            \A i \in 1..Len(req[r].result.accessibility_objects) :
                LET o == req[r].result.accessibility_objects[i]
                IN \E k \in 1..Len(catalog.rows) :
                      /\ catalog.rows[k].feature_type = o.feature_type
                      /\ catalog.rows[k].latitude = o.latitude
                      /\ catalog.rows[k].longitude = o.longitude

----------------------------------------------------------------------------
(* The external calls of one find_route call, and its candidate list *)

GeocodesNeeded(r) ==
    (IF req[r].start_coords = None
        /\ ~(req[r].start_address = "current" /\ req[r].user_location # None)
     THEN 1 ELSE 0)
    + (IF req[r].end_coords = None THEN 1 ELSE 0)

\* C17: one find_route call asks the router at most twice (the base request,
\* then at most one multi-stop request whose points are the origin, the
\* selected waypoints in progress order, the destination) and the geocoder at
\* most once per endpoint; no call is repeated, after a failure or otherwise.
C17_CallsAreBounded ==
    \A r \in Requests :
        LET router == CallsTo(r, "router")
            geocoder == CallsTo(r, "geocoder")
            best == req[r].best_objects
        IN /\ Len(router) <= 2
           /\ Len(geocoder) <= GeocodesNeeded(r)
           /\ \A i, j \in 1..Len(geocoder) : i # j => geocoder[i].address # geocoder[j].address
           /\ \A i, j \in 1..Len(req[r].calls) : i # j => req[r].calls[i] # req[r].calls[j]
           /\ Len(router) >= 1 =>
                 router[1].points = <<req[r].start_coords_tuple, req[r].end_coords_tuple>>
           /\ Len(router) = 2 =>
                 /\ router[2].points =
                       <<req[r].start_coords_tuple>>
                       \o [i \in 1..Len(best) |-> <<best[i].lat, best[i].lon>>]
                       \o <<req[r].end_coords_tuple>>
                 /\ \A i \in 1..(Len(best) - 1) : best[i].cum < best[i + 1].cum
           /\ Failed(r) => req[r].calls[Len(req[r].calls)].svc \in {"geocoder", "router"}

\* a finished request that asked the geocoder for both endpoints and whose
\* multi-stop request, through two waypoints, failed and was not repeated
C17_Witness ==
    \E r \in Requests :
        /\ Succeeded(r)
        /\ Len(CallsTo(r, "geocoder")) = 2
        /\ Len(CallsTo(r, "router")) = 2
        /\ Len(req[r].best_objects) = 2
        /\ ~req[r].multi.ok

\* C18: the only external services a find_route call invokes are the
\* geocoder and the router.
C18_OnlyGeocoderAndRouter ==
    \A r \in Requests :
        \A k \in 1..Len(req[r].calls) : req[r].calls[k].svc \in {"geocoder", "router"}

\* C19: for a base route of zero or one point the candidate search returns
\* no candidate and no waypoint is selected.
C19_ShortRouteNoCandidates ==
    \A r \in Requests :
        Len(req[r].base_route_coords) <= 1 =>
            /\ req[r].unique_objects = <<>>
            /\ req[r].best_objects = <<>>

\* the coordinate key of a candidate: latitude and longitude rounded to 6
\* decimal degrees, in units of 0.000001 degree
CoordKey(obj) == <<obj.lat * 1000, obj.lon * 1000>>

\* C20: the candidate list handed to the scorer has at most one candidate
\* per coordinate key.
C20_OnePerCoordinateKey ==
    \A r \in Requests :
        \A i, j \in 1..Len(req[r].unique_objects) :
            i # j => CoordKey(req[r].unique_objects[i]) # CoordKey(req[r].unique_objects[j])

----------------------------------------------------------------------------
(* Priorities and scores *)

\* C21: every candidate find_route ranks, and every waypoint it selects, has
\* a category whose priority in the requested profile's table is strictly
\* positive, for each of the three mobility profiles.
C21_NoZeroPriorityCandidate ==
    \A r \in Requests :
        LET q == req[r] IN
        /\ \A i \in 1..Len(q.unique_objects) :
              PriorityOf(q.mobility_type, q.unique_objects[i].ftype) > 0
        /\ \A i \in 1..Len(q.best_objects) :
              PriorityOf(q.mobility_type, q.best_objects[i].ftype) > 0

\* a finished request of the visually impaired profile that selected a
\* waypoint of the profile's lowest-priority category among several candidates
C21_Witness ==
    \E r \in Requests :
        /\ Succeeded(r)
        /\ req[r].mobility_type = "VISUALLY_IMPAIRED"
        /\ Len(req[r].unique_objects) >= 2
        /\ \E i \in 1..Len(req[r].best_objects) :
              req[r].best_objects[i].ftype = "HELP_BUTTON"

\* C22: of two candidates within the search corridor (distance to the route
\* at most 0.005 degrees) the one whose category has the strictly higher
\* priority for the profile has the strictly higher score.
C22_PriorityDominates ==
    \A r \in Requests :
        \E objs \in {req[r].unique_objects} :
        \E score \in {[k \in 1..Len(objs) |-> ScoreOf(r, objs[k])]} :
            \A i, j \in 1..Len(objs) :
                (/\ objs[i].dist <= NearRoute
                 /\ objs[j].dist <= NearRoute
                 /\ PriorityOf(req[r].mobility_type, objs[i].ftype)
                      > PriorityOf(req[r].mobility_type, objs[j].ftype))
                => score[i] > score[j]

\* a selected waypoint without the progress find_route attached to it
AsCandidate(obj) ==
    [lat |-> obj.lat, lon |-> obj.lon, ftype |-> obj.ftype, desc |-> obj.desc,
     addr |-> obj.addr, dist |-> obj.dist]

\* C23: every selected waypoint is one of the 6 highest-scored candidates:
\* fewer than 6 candidates score strictly higher than it, so a candidate
\* ranked 7th or lower is never selected, however few pool candidates survive
\* the spacing filter.
C23_SelectedFromTopSix ==
    \A r \in Runs :
        \E objs \in {req[r].unique_objects} :
        \E score \in {[k \in 1..Len(objs) |-> ScoreOf(r, objs[k])]} :
            \A i \in 1..Len(req[r].best_objects) :
                \E b \in {AsCandidate(req[r].best_objects[i])} :
                    /\ b \in Range(objs)
                    /\ Cardinality({j \in 1..Len(objs) : score[j] > ScoreOf(r, b)}) < PoolSize

\* a finished run on seven candidates in which fewer than 3 waypoints were
\* selected although the 7th-ranked candidate lies more than min_spacing from
\* every selected one
C23_Witness ==
    \E r \in Runs :
        /\ Succeeded(r)
        /\ Len(req[r].unique_objects) > PoolSize
        /\ Len(req[r].best_objects) < MaxWaypoints
        /\ \E objs \in {req[r].unique_objects} :
           \E score \in {[k \in 1..Len(objs) |-> ScoreOf(r, objs[k])]} :
             \E j \in 1..Len(objs) :
                /\ Cardinality({k \in 1..Len(objs) : score[k] > score[j]}) >= PoolSize
                /\ \A i \in 1..Len(req[r].best_objects) :
                      Abs(ProgressOf(r, objs[j]).cum - req[r].best_objects[i].cum)
                          > min_route_distance

----------------------------------------------------------------------------
(* The description *)

----------------------------------------------------------------------------
(* Distances and spacing *)

\* C26: the total_distance of a successful result is at most 1.5 x the base
\* route's distance: it is the base distance after a fallback and otherwise the
\* multi-stop distance, which is accepted up to and including exactly 1.5 x base.
C26_TotalDistanceWithinTolerance ==
    \A r \in Requests :
        Succeeded(r) =>
            LET q == req[r]
                fallback == q.multi.coords = <<>> \/ 2 * q.multi.distance > 3 * q.base_distance
            IN /\ 2 * (10 * q.result.total_distance) <= 3 * q.base_distance
               /\ fallback => q.result.total_distance = q.base_distance \div 10
               /\ ~fallback => q.result.total_distance = q.multi.distance \div 10
               /\ (q.multi.coords # <<>> /\ 2 * q.multi.distance = 3 * q.base_distance)
                     => q.result.route_coords = q.multi.coords

\* a successful result whose multi-stop route was exactly 1.5 x the base
\* distance and was returned
C26_Witness ==
    \E r \in Requests :
        /\ Succeeded(r)
        /\ 2 * req[r].multi.distance = 3 * req[r].base_distance
        /\ req[r].result.route_coords = req[r].multi.coords
        /\ req[r].result.total_distance = req[r].multi.distance \div 10
        /\ req[r].result.total_distance > req[r].base_distance \div 10

\* the arc length of the base route: the last entry of cum_dist
RouteLength(base_route_coords) ==
    LET c == cum_dist(base_route_coords) IN c[Len(c)]

\* C27 (as stated): the number k of selected waypoints satisfies
\* (k - 1) x min_spacing < L, where L is the base route's arc length.
C27_StrictlyBelowLength ==
    \A r \in Requests :
        Succeeded(r) =>
            (Len(req[r].best_objects) - 1) * min_route_distance
                < RouteLength(req[r].base_route_coords)

\* C27 (amended): (k - 1) x min_spacing <= L, strictly when k >= 2; every
\* progress value lies in [0, L]; a base route no longer than min_spacing
\* yields at most one waypoint; no two selected waypoints share coordinates.
C27_WaypointsFitTheRoute ==
    \A r \in Requests :
        Succeeded(r) =>
            \E L \in {RouteLength(req[r].base_route_coords)} :
                LET best == req[r].best_objects
                    k == Len(best)
                IN /\ (k - 1) * min_route_distance <= L
                   /\ k >= 2 => (k - 1) * min_route_distance < L
                   /\ \A i \in 1..k : 0 <= best[i].cum /\ best[i].cum <= L
                   /\ L <= min_route_distance => k <= 1
                   /\ \A i, j \in 1..k :
                         i # j => <<best[i].lat, best[i].lon>> # <<best[j].lat, best[j].lon>>

\* a successful request on a base route of arc length 0 with several
\* candidates, of which one is selected
C27_Witness ==
    \E r \in Requests :
        /\ Succeeded(r)
        /\ RouteLength(req[r].base_route_coords) = 0
        /\ Len(req[r].unique_objects) >= 2
        /\ Len(req[r].best_objects) = 1

\* the entries of pool at the indices in K, in pool order
RestrictTo(pool, K) ==
    LET idx == SelectSeq([i \in 1..Len(pool) |-> i], LAMBDA i : i \in K)
    IN [n \in 1..Len(idx) |-> pool[idx[n]]]

\* C28 (as stated): the pool candidate with the smallest progress is always
\* selected, and every pool candidate that is not selected is within
\* min_spacing of a filtered-in candidate with smaller progress or was cut by
\* the cap of 3 (K is the set of filtered-in pool positions).
C28_DroppedBehindSmallerProgress ==
    \A r \in Requests :
        Succeeded(r) =>
            \E pool \in {PoolOf(r)} :
                /\ req[r].unique_objects # <<>> => req[r].best_objects # <<>>
                /\ pool # <<>> => req[r].best_objects[1] = pool[1]
                /\ \E cum \in {[k \in 1..Len(pool) |-> pool[k].cum]} :
                   \E K \in SUBSET (1..Len(pool)) :
                      /\ \A k \in (1..Len(pool)) \ K :
                            \E j \in K :
                                /\ cum[j] < cum[k]
                                /\ cum[k] - cum[j] <= min_route_distance
                      /\ req[r].best_objects = Take(RestrictTo(pool, K), MaxWaypoints)

\* C28 (amended): the first pool candidate in progress order, which has the
\* smallest progress, is always selected, so the waypoint list is non-empty
\* whenever the candidate list is; every pool candidate that is not selected
\* is within min_spacing of a filtered-in candidate placed before it in
\* progress order, whose progress is smaller or equal, or was filtered in and
\* cut by the cap of 3 (K is the set of filtered-in pool positions, which lie
\* pairwise more than min_spacing apart).
C28_DroppedBehindEarlierKept ==
    \A r \in Requests :
        Succeeded(r) =>
            \E pool \in {PoolOf(r)} :
                /\ req[r].unique_objects # <<>> => req[r].best_objects # <<>>
                /\ pool # <<>> =>
                      /\ req[r].best_objects[1] = pool[1]
                      /\ \A k \in 1..Len(pool) : pool[1].cum <= pool[k].cum
                /\ \E cum \in {[k \in 1..Len(pool) |-> pool[k].cum]} :
                   \E K \in SUBSET (1..Len(pool)) :
                      /\ \A i, j \in K :
                            i # j => Abs(cum[i] - cum[j]) > min_route_distance
                      /\ \A k \in (1..Len(pool)) \ K :
                            \E j \in K :
                                /\ j < k
                                /\ cum[j] <= cum[k]
                                /\ cum[k] - cum[j] <= min_route_distance
                      /\ req[r].best_objects = Take(RestrictTo(pool, K), MaxWaypoints)

\* a successful request with two selected waypoints and a pool candidate
\* that was dropped for having the same progress as the first of them
C28_Witness ==
    \E r \in Requests :
        /\ Succeeded(r)
        /\ Len(req[r].best_objects) = 2
        /\ \E pool \in {PoolOf(r)} :
              /\ Len(pool) = 3
              /\ pool[1] = req[r].best_objects[1]
              /\ pool[2].cum = pool[1].cum
              /\ pool[3] = req[r].best_objects[2]

----------------------------------------------------------------------------
(* Submissions and their moderation *)

\* largest number of rows in user_submissions
MaxSubmissions == 2

\* largest AUTOINCREMENT id accessibility_objects reaches when the process is
\* started again and submissions are approved
MaxAdminRowId == 84

\* largest number of rows one submission is let to put into accessibility_objects
MaxInsertsPerSubmission == 2

\* feature_type values of submitted forms
SubmittedTypes == {"RAMP_FIXED"}

\* coordinates add_user_submission is called with: lat and lon default to None
SubmittedCoords ==
    {[lat |-> None, lon |-> None], [lat |-> Some(1), lon |-> None],
     [lat |-> Some(1), lon |-> Some(12)]}

\* werkzeug's generate_password_hash and check_password_hash: a hash
\* verifies exactly the password it was made from
generate_password_hash(password) == <<"hash", password>>
check_password_hash(pwhash, password) == pwhash = generate_password_hash(password)

\* the admins table after init_database: the default admin
admins == {[username |-> "admin", password |-> generate_password_hash("admin")]}

\* the forms posted to /admin/login
Credentials ==
    {[username |-> "admin", password |-> "admin"],
     [username |-> "admin", password |-> "guess"],
     [username |-> "visitor", password |-> "admin"]}

\* @app.before_request require_admin: TRUE when the request is answered with
\* the redirect to the login page.  A path is the list of its segments, so
\* that path[1] = "admin" is request.path.startswith('/admin').
require_admin(path, sess) ==
    /\ path[1] = "admin"
    /\ path # <<"admin", "login">>
    /\ path # <<"admin", "change_password">>
    /\ sess.admin = None

\* POST /admin/login
admin_login ==
    /\ ~require_admin(<<"admin", "login">>, session)
    /\ \E form \in Credentials :
         LET row == {a \in admins : a.username = form.username}
         IN IF \E a \in row : check_password_hash(a.password, form.password)
            THEN session' = [session EXCEPT !.admin = Some(form.username)]
            ELSE session' = session
    /\ UNCHANGED <<req, catalog, user_submissions>>

\* GET /admin/logout: session.pop('admin', None)
logout ==
    /\ ~require_admin(<<"admin", "logout">>, session)
    /\ session' = [session EXCEPT !.admin = None]
    /\ UNCHANGED <<req, catalog, user_submissions>>

\* INSERT INTO user_submissions: the new row is pending.  `inserted` is a
\* history field, not a column: the ids of the accessibility_objects rows
\* that approvals of this submission inserted.
add_user_submission(table, feature_type, lat, lon) ==
    Append(table, [id |-> Len(table) + 1, feature_type |-> feature_type,
                   latitude |-> lat, longitude |-> lon,
                   status |-> "pending", inserted |-> <<>>])

\* POST /api/submit: the form carries no coordinates
api_submit ==
    /\ ~require_admin(<<"api", "submit">>, session)
    /\ Len(user_submissions) < MaxSubmissions
    /\ \E feature_type \in SubmittedTypes :
         user_submissions' = add_user_submission(user_submissions, feature_type, None, None)
    /\ UNCHANGED <<req, catalog, session>>

\* a call of AccessibilityDatabase.add_user_submission with its lat and lon arguments
AddUserSubmission ==
    /\ Len(user_submissions) < MaxSubmissions
    /\ \E feature_type \in SubmittedTypes, c \in SubmittedCoords :
         user_submissions' = add_user_submission(user_submissions, feature_type, c.lat, c.lon)
    /\ UNCHANGED <<req, catalog, session>>

\* UPDATE user_submissions SET status = ... WHERE id = submission_id
SetStatus(table, submission_id, status) ==
    [i \in 1..Len(table) |->
        IF table[i].id = submission_id THEN [table[i] EXCEPT !.status = status]
        ELSE table[i]]

\* AccessibilityDatabase.approve_submission: the status is set whatever it
\* was; the row is copied when it exists and has both coordinates
approve_submission(submission_id) ==
    LET updated == SetStatus(user_submissions, submission_id, "approved")
        row == {i \in 1..Len(updated) : updated[i].id = submission_id}
    IN IF \E i \in row : updated[i].latitude # None /\ updated[i].longitude # None
       THEN \E i \in row :
              /\ catalog.last_id + 1 <= MaxAdminRowId
              /\ Len(updated[i].inserted) < MaxInsertsPerSubmission
              /\ catalog' = InsertAll(catalog,
                                       <<[feature_type |-> updated[i].feature_type,
                                          latitude |-> updated[i].latitude[1],
                                          longitude |-> updated[i].longitude[1]]>>)
              /\ user_submissions' =
                    [updated EXCEPT ![i].inserted = Append(@, catalog.last_id + 1)]
       ELSE /\ catalog' = catalog
            /\ user_submissions' = updated

\* POST /api/approve/<int:submission_id>
api_approve ==
    /\ \E submission_id \in 1..(MaxSubmissions + 1) :
         /\ ~require_admin(<<"api", "approve", submission_id>>, session)
         /\ approve_submission(submission_id)
    /\ UNCHANGED <<req, session>>

\* POST /api/reject/<int:submission_id>: the UPDATE, or a 500 when the
\* database is locked
api_reject ==
    /\ \E submission_id \in 1..(MaxSubmissions + 1), locked \in BOOLEAN :
         /\ ~require_admin(<<"api", "reject", submission_id>>, session)
         /\ user_submissions' =
               IF locked THEN user_submissions
               ELSE SetStatus(user_submissions, submission_id, "rejected")
    /\ UNCHANGED <<req, catalog, session>>

\* the process is started again: AccessibilityDatabase.__init__ runs
\* init_database (CREATE TABLE IF NOT EXISTS keeps the stored rows) and
\* add_tula_accessibility_all; the session cookie stays with the browser
AccessibilityDatabase_init ==
    /\ catalog.last_id + Len(add_tula_accessibility_all(DeleteAll(catalog)).rows)
          <= MaxAdminRowId
    /\ catalog' = add_tula_accessibility_all(catalog)
    /\ UNCHANGED <<req, user_submissions, session>>

AdminInit == Init

AdminNext ==
    \/ admin_login
    \/ logout
    \/ api_submit
    \/ AddUserSubmission
    \/ api_approve
    \/ api_reject
    \/ AccessibilityDatabase_init
    \/ populate_database

AdminSpec == AdminInit /\ [][AdminNext]_vars

\* the (feature_type, latitude, longitude) of the objects data seeding
\* writes: add_tula_accessibility_all and the XML import
SeededContent ==
    LET seeded == add_tula_accessibility_all([rows |-> <<>>, last_id |-> 0]).rows
        imported == UNION {Range(PopulateRows(l)) : l \in InfrastructureLists}
    IN {<<seeded[k].feature_type, seeded[k].latitude, seeded[k].longitude>> :
            k \in 1..Len(seeded)}
       \cup {<<o.feature_type, o.latitude, o.longitude>> : o \in imported}

\* C25: a feature, once in the catalog, stays in it unchanged: no operation
\* deletes a row of accessibility_objects or changes its location, and a new
\* row comes from data seeding or from the approval of a submission.
C25_CatalogOnlyGrows ==
    [][/\ \A k \in 1..Len(catalog.rows) :
             \E j \in 1..Len(catalog'.rows) : catalog'.rows[j] = catalog.rows[k]
       /\ \A j \in 1..Len(catalog'.rows) :
             catalog'.rows[j].id > catalog.last_id =>
                \/ <<catalog'.rows[j].feature_type, catalog'.rows[j].latitude,
                     catalog'.rows[j].longitude>> \in SeededContent
                \/ \E i \in 1..Len(user_submissions') :
                      /\ user_submissions'[i].status = "approved"
                      /\ catalog'.rows[j].id \in Range(user_submissions'[i].inserted)
      ]_vars

\* C29: a submission's status leaves 'pending', and a submitted feature
\* enters the catalog, only in a step taken with an authenticated admin
\* session.
C29_ModerationNeedsAdminSession ==
    [][(\E i \in 1..Len(user_submissions) :
           \/ /\ user_submissions[i].status = "pending"
              /\ user_submissions'[i].status # "pending"
           \/ Len(user_submissions'[i].inserted) > Len(user_submissions[i].inserted))
       => session.admin # None
      ]_vars

\* C30: the catalog holds at most one feature per submission, and only for
\* submissions whose status is 'approved' and that have both coordinates; a
\* submission without coordinates never puts a feature into the catalog.
C30_OneFeaturePerApprovedSubmission ==
    \A i \in 1..Len(user_submissions) :
        LET sub == user_submissions[i]
            mine == {k \in 1..Len(catalog.rows) : catalog.rows[k].id \in Range(sub.inserted)}
        IN /\ Cardinality(mine) <= 1
           /\ mine # {} =>
                 /\ sub.status = "approved"
                 /\ sub.latitude # None
                 /\ sub.longitude # None
           /\ (sub.latitude = None \/ sub.longitude = None) => sub.inserted = <<>>

====
